---- MODULE Spec2Model ----
(***************************************************************************)
(* Model of socketio_client/engine/transports.py: the Transport lifecycle, *)
(* the polling transport (poll loop, pause, write, close override), the    *)
(* XHR polling transport (do_poll, do_write, on_load) and the websocket    *)
(* transport, under gevent's cooperative scheduling.  A task runs without  *)
(* interruption until it blocks: on an HTTP request (request(), line 284)  *)
(* or on Event.wait (line 134).  One action is one such uninterrupted run. *)
(* The pure functions have specifications of their own: UriSpec for uri()  *)
(* and BinarySpec for the binary codec that tests/test_binary.py uses.     *)
(***************************************************************************)
EXTENDS Integers, Sequences, FiniteSets, TLC

\* ---------------------------------------------------------------- bounds
MaxPayloadLen == 3     \* packets in one poll payload
MaxPauses == 1         \* pause() contexts alive at one time
NumSenders == 2        \* tasks that call send()
NumOpeners == 2        \* tasks that call open()
MaxWidth == 2          \* elements of one array or map of a data tree
MaxDepth == 2          \* nesting of arrays and maps in a data tree

Openers == 1..NumOpeners
Pausers == 1..MaxPauses

\* ---------------------------------------------------------------- inputs
\* A decoded packet is named by one string: "open" is the handshake packet,
\* "a" is a message packet, "close" is the close packet, "error" is the
\* packet the codec yields for a payload it cannot parse.
Packets == {"open", "a", "close"}
PacketType(p) == IF p = "a" THEN "message" ELSE p

Payloads == UNION {[1..n -> Packets] : n \in 0..MaxPayloadLen}
Statuses == {200, 302, 404}
ContentTypes == {"application/octet-stream", "text/plain"}
Bodies == {<<>>, <<"a">>}
\* a poll response: a 2xx response carries a payload, any other an error body
Responses ==
    {r \in [status : Statuses, ctype : ContentTypes, body : Payloads] :
        ~(300 > r.status /\ r.status >= 200) => r.body \in Bodies}
\* the argument of send: one packet or a list; send wraps the single packet
SendArgs == {[islist |-> FALSE, items |-> <<"a">>],
             [islist |-> TRUE, items |-> <<"a", "b">>]}

ReadyStates == {"none", "opening", "open", "pausing", "paused", "closed"}

\* the port argument of the constructor: None, or a number
NoPort == [set |-> FALSE, n |-> 0]
Ports == {NoPort} \cup {[set |-> TRUE, n |-> p] : p \in {80, 433, 443, 8080}}

NoCall == [fn |-> "none"]

VARIABLES
    kind,            \* "polling" (XHRPollingTransport) or "websocket"
    supports_binary, \* not force_base64
    engine_sets_sid, \* whether the owner's 'packet' listener stores the sid
    ready_state,     \* "none" stands for None
    writable,
    polling,
    sid,             \* "none" stands for None
    once,            \* listeners registered with once(), by event
    ctx,             \* the context dict of each pause() call
    opener,          \* position of each task that calls open()
    sender,          \* how many tasks are blocked in the write of a send()
    read_job,        \* the websocket read loop is running
    fatal,           \* on_data has raised the sid ValueError
    last,            \* what the latest step did
    port,            \* the configured port; set is false for None
    secure,
    call             \* the latest call of a pure function and its result

vars == <<kind, supports_binary, engine_sets_sid, ready_state, writable,
          polling, sid, once, ctx, opener, sender, read_job, fatal,
          last, port, secure, call>>

\* ------------------------------------------------------- the object state
\* The handlers are operators on a record of the transport's fields; em, wr
\* and opened collect what one step emits, hands to do_write and how often
\* it enters do_open; done holds the contexts of the pause() calls the
\* step completes and c the context of the pause() call the step belongs
\* to; od describes the PollingTransport.on_data call the
\* step runs: its payload, the packets it has dispatched, what it returned
\* and the ready_state it started in.
NoOnData == [payload |-> <<>>, dispatched |-> <<>>, ret |-> "none",
             pre |-> "none"]

Ev(e) == [ev |-> e, msg |-> "", body |-> <<>>]

\* the context of a pause() call: total and the Event (set), with the
\* caller's position (status), which listeners the call has registered and
\* which of them have fired, how often the closure pause() has run for it
\* (n_done), and whether the call was made in 'opening' or 'open' with a
\* poll or a write in flight (live)
NoCtx ==
    [status |-> "unused", nowait |-> FALSE, total |-> 0, set |-> FALSE,
     reg_pc |-> FALSE, reg_drain |-> FALSE, fired_pc |-> FALSE,
     fired_drain |-> FALSE, n_done |-> 0, live |-> FALSE]

St ==
    [rs |-> ready_state, writable |-> writable, polling |-> polling,
     sid |-> sid, once |-> once, ctx |-> ctx, od |-> NoOnData, fatal |-> fatal,
     em |-> <<>>, wr |-> <<>>, opened |-> 0, done |-> <<>>, c |-> NoCtx]

IdleOpener == [pc |-> "idle", resume |-> "", n |-> 0, pkts |-> <<>>,
               od |-> NoOnData]

\* ---------------------------------------------------------- EventEmitter
emit(s, e) == [s EXCEPT !.em = Append(@, e)]

\* a context is dropped once its caller has left pause() and no listener
\* refers to it
release(s, c) ==
    IF s.ctx[c].status \in {"returned", "timedout"} /\ s.ctx[c].total = 0
    THEN [s EXCEPT !.ctx[c] = NoCtx] ELSE s

\* the closure pause() of PollingTransport.pause, for the call with context c
pause_done(s, c) ==
    LET s1 == [s EXCEPT !.rs = "paused",
                        !.ctx[c].n_done = @ + 1,
                        !.ctx[c].set = (IF s.ctx[c].nowait THEN @ ELSE TRUE)]
    IN release([s1 EXCEPT !.done = Append(@, s1.ctx[c])], c)

\* on_poll_complete without the test of the counter
on_poll_complete_mut(s, c, e) ==
    LET s1 == [s EXCEPT !.ctx[c].total = @ - 1,
                        !.ctx[c].fired_pc = (@ \/ e = "poll_complete"),
                        !.ctx[c].fired_drain = (@ \/ e = "drain")]
    IN pause_done(s1, c)

\* the closure on_poll_complete, registered for event e by the call c
on_poll_complete(s, c, e) ==
    LET t == s.ctx[c].total - 1
        s1 == [s EXCEPT !.ctx[c].total = t,
                        !.ctx[c].fired_pc = (@ \/ e = "poll_complete"),
                        !.ctx[c].fired_drain = (@ \/ e = "drain")]
    IN IF t = 0 THEN pause_done(s1, c) ELSE s1

RECURSIVE fire(_, _, _)
fire(s, cs, e) ==
    IF cs = <<>> THEN s ELSE fire(on_poll_complete(s, Head(cs), e), Tail(cs), e)

\* emit of 'poll_complete' or 'drain': the event is recorded and the once()
\* listeners run in registration order and are removed
emit_once(s, e) ==
    LET cs == s.once[e]
        s1 == [emit(s, Ev(e)) EXCEPT !.once[e] = <<>>]
    IN fire(s1, cs, e)

\* ------------------------------------------------ collaborators (codec)
\* Parser.encode_payload: the packets of one write as one payload
encode_payload(packets, sb) == [b64 |-> ~sb, packets |-> packets]

\* Parser.decode_payload: the packets of a payload, in wire order.  The
\* literal 'ok' that on_load substitutes carries no packet, or decodes to one
\* parser-error packet.
OkDecodings == {<<>>, <<"error">>}
decode_payload(data, okdec) == IF data.ok THEN okdec ELSE data.packets

\* ------------------------------------------------------------- Transport
on_error(s, msg, desc) == emit(s, [ev |-> "error", msg |-> msg, body |-> desc])

\* the guards of open, close and send; the _mut variants let one more
\* ready_state pass, open_guard_opening lets 'opening' pass for 'closed'
open_guard_opening == ready_state \in {"opening", "none"}

open_guard_mut == ready_state \in {"closed", "none", "paused"}

open_guard == ready_state \in {"closed", "none"}

close_guard == ready_state \in {"opening", "open"}

send_guard_mut == ready_state \in {"open", "opening"}

send_guard == ready_state = "open"

\* Transport.on_open; the once('open') listeners run in the caller's
\* continuation because each of them blocks in a write
on_open(s) ==
    emit([s EXCEPT !.rs = "open", !.writable = TRUE, !.once.open = 0],
         Ev("open"))

\* Transport.on_packet, with the owning socket's 'packet' listener, which
\* stores the session id of a handshake packet
on_packet(s, p) ==
    LET s1 == emit(s, [ev |-> "packet", msg |-> p, body |-> <<>>])
    IN IF PacketType(p) = "open" /\ engine_sets_sid
       THEN [s1 EXCEPT !.sid = "sid1"] ELSE s1

\* ------------------------------------------------------ PollingTransport
\* write, up to the request that do_write blocks in
write_begin(s, packets) ==
    [s EXCEPT !.writable = FALSE,
              !.wr = Append(@, encode_payload(packets, supports_binary))]

\* do_write taking every status below 400 for a success
do_write_done_mut(s, status, body) ==
    IF status >= 200 /\ status < 400 THEN s
    ELSE on_error(s, "xhr request failed", body)

\* XHRPollingTransport.do_write, from the response on
do_write_done(s, status, body) ==
    IF 300 > status /\ status >= 200 THEN s
    ELSE on_error(s, "xhr request failed", body)

\* write, after do_write has returned
write_end(s) == emit_once([s EXCEPT !.writable = TRUE], "drain")

Blocked(s, resume, n, pkts) ==
    [s |-> s, out |-> "blocked", resume |-> resume, n |-> n, pkts |-> pkts]
Returned(s, out) ==
    [s |-> [s EXCEPT !.od.ret = out, !.fatal = (@ \/ out = "raise")],
     out |-> out, resume |-> "", n |-> 0, pkts |-> <<>>]

\* PollingTransport.on_close: the close packet is written now, or by a
\* once('open') listener
on_close(s, pkts) ==
    IF s.rs = "open"
    THEN Blocked(write_begin(s, <<"close">>), "on_close", 0, Tail(pkts))
    ELSE [s |-> [s EXCEPT !.once.open = @ + 1], out |-> "registered",
          resume |-> "", n |-> 0, pkts |-> pkts]

\* on_data after the loop, without the sid test
on_data_end_mut(s) ==
    IF s.rs # "closed"
    THEN LET s1 == emit_once([s EXCEPT !.polling = FALSE], "poll_complete")
         IN Returned(s1, IF s1.rs = "open" THEN "True" ELSE "None")
    ELSE Returned(s, "None")

\* PollingTransport.on_data after the loop
on_data_end(s) ==
    IF s.rs = "open" /\ s.sid = "none" THEN Returned(s, "raise")
    ELSE IF s.rs # "closed"
    THEN LET s1 == emit_once([s EXCEPT !.polling = FALSE], "poll_complete")
         IN Returned(s1, IF s1.rs = "open" THEN "True" ELSE "None")
    ELSE Returned(s, "None")

RECURSIVE on_data_loop(_, _)
RECURSIVE on_data_packet(_, _)
RECURSIVE open_listeners(_, _, _)

\* the once('open') listeners still to run (n of them), each the closure
\* close() of on_close, then the rest of the loop body for Head(pkts)
open_listeners(s, n, pkts) ==
    IF n > 0
    THEN Blocked(write_begin(s, <<"close">>), "open_listener", n - 1, pkts)
    ELSE on_data_packet(s, pkts)

\* the loop body with the packet dispatched before the close test
on_data_packet_mut(s, pkts) ==
    LET s1 == [on_packet(s, Head(pkts)) EXCEPT
                  !.od.dispatched = Append(@, Head(pkts))]
    IN IF "close" = PacketType(Head(pkts))
       THEN LET r == on_close(s1, pkts)
            IN IF r.out = "blocked" THEN r ELSE Returned(r.s, "False")
       ELSE on_data_loop(s1, Tail(pkts))

\* the loop body from the close test on
on_data_packet(s, pkts) ==
    IF "close" = PacketType(Head(pkts))
    THEN LET r == on_close(s, pkts)
         IN IF r.out = "blocked" THEN r ELSE Returned(r.s, "False")
    ELSE on_data_loop([on_packet(s, Head(pkts)) EXCEPT
                          !.od.dispatched = Append(@, Head(pkts))], Tail(pkts))

\* the for loop of on_data over the packets still to handle
on_data_loop(s, pkts) ==
    IF pkts = <<>> THEN on_data_end(s)
    ELSE IF "opening" = s.rs
    THEN open_listeners(on_open(s), s.once.open, pkts)
    ELSE on_data_packet(s, pkts)

on_data(s, pkts) ==
    on_data_loop([s EXCEPT !.od = [payload |-> pkts, dispatched |-> <<>>,
                                   ret |-> "running", pre |-> s.rs]], pkts)

\* XHRPollingTransport.on_load: the data handed to on_data
on_load_data(resp) ==
    IF resp.ctype = "application/octet-stream"
    THEN [ok |-> FALSE, packets |-> resp.body]
    ELSE IF ~supports_binary THEN [ok |-> FALSE, packets |-> resp.body]
    ELSE [ok |-> TRUE, packets |-> <<>>]

\* XHRPollingTransport.do_poll, from the response on
Skipped(s, out) == [s |-> s, out |-> out, resume |-> "", n |-> 0, pkts |-> <<>>]

do_poll_done(s, resp, okdec) ==
    IF 300 > resp.status /\ resp.status >= 200
    THEN on_data(s, decode_payload(on_load_data(resp), okdec))
    ELSE IF resp.status >= 400
    THEN Skipped(on_error(s, "xhr request failed", resp.body), "error")
    ELSE Skipped(s, "ignored")

\* poll after do_poll has returned, then the loop of do_open: the next poll
\* is issued (the task blocks in its request) or do_open returns
poll_loop(s) ==
    LET s1 == emit(s, Ev("poll"))
    IN IF s1.rs = "open"
       THEN [s |-> [s1 EXCEPT !.polling = TRUE], pc |-> "poll_req"]
       ELSE [s |-> s1, pc |-> "idle"]

\* ---------------------------------------------------- WebsocketTransport
\* write: every packet is sent as its own frame; fails holds the positions
\* whose websocket.send raises RuntimeError
\* the loop of write giving up at the first send that fails
RECURSIVE ws_send_all_mut(_, _, _, _)
ws_send_all_mut(s, packets, i, fails) ==
    IF i > Len(packets) THEN s
    ELSE LET s1 == [s EXCEPT !.wr = Append(@, encode_payload(<<packets[i]>>,
                                                           supports_binary))]
         IN IF i \in fails
            THEN on_error(s1, "The websocket clsoed without a close packet (%s)", <<>>)
            ELSE ws_send_all_mut(s1, packets, i + 1, fails)

RECURSIVE ws_send_all(_, _, _, _)
ws_send_all(s, packets, i, fails) ==
    IF i > Len(packets) THEN s
    ELSE LET s1 == [s EXCEPT !.wr = Append(@, encode_payload(<<packets[i]>>,
                                                           supports_binary))]
             s2 == IF i \in fails
                   THEN on_error(s1, "The websocket clsoed without a close packet (%s)", <<>>)
                   ELSE s1
         IN ws_send_all(s2, packets, i + 1, fails)

on_drain(s) == emit_once([s EXCEPT !.writable = TRUE], "drain")

ws_write(s, packets, fails) ==
    on_drain(ws_send_all([s EXCEPT !.writable = FALSE], packets, 1, fails))

\* -------------------------------------------------------------------- uri
\* A URI is the record of its segments; port is the text between the host
\* name and the path: nothing, or ':' followed by the number.
PortSegment(p) == [sep |-> ":", n |-> p.n]
NoPortSegment == [sep |-> "", n |-> 0]

QueryBase(name) ==
    {[k |-> "EIO", v |-> "3"], [k |-> "transport", v |-> name],
     [k |-> "t", v |-> "now"]}

\* PollingTransport.uri
polling_uri ==
    LET schema == IF secure THEN "https" ELSE "http"
        query == QueryBase("polling")
                 \cup (IF sid # "none" THEN {[k |-> "sid", v |-> sid]} ELSE {})
                 \cup (IF ~supports_binary /\ sid = "none"
                       THEN {[k |-> "b64", v |-> "1"]} ELSE {})
    IN [schema |-> schema, hostname |-> "host",
        port |-> IF port.set /\ (\/ "https" = schema /\ port.n # 443
                                 \/ "http" = schema /\ port.n # 80)
                 THEN PortSegment(port) ELSE NoPortSegment,
        path |-> "/path", query |-> query]

\* WebsocketTransport.uri; a port of 0 is as false as None
websocket_uri ==
    LET schema == IF secure THEN "wss" ELSE "ws"
        query == QueryBase("websocket")
                 \cup (IF sid # "none" THEN {[k |-> "sid", v |-> sid]} ELSE {})
                 \cup (IF ~supports_binary
                       THEN {[k |-> "b64", v |-> "1"]} ELSE {})
    IN [schema |-> schema, hostname |-> "host",
        port |-> IF (port.set /\ port.n # 0)
                      /\ (\/ "wss" = schema /\ port.n # 433
                          \/ "ws" = schema /\ port.n # 80)
                 THEN PortSegment(port) ELSE NoPortSegment,
        path |-> "/path", query |-> query]

uri == IF kind = "polling" THEN polling_uri ELSE websocket_uri

\* ------------------------------------------------------------------ steps
Put(s) ==
    /\ ready_state' = s.rs
    /\ writable' = s.writable
    /\ polling' = s.polling
    /\ sid' = s.sid
    /\ once' = s.once
    /\ ctx' = s.ctx
    /\ fatal' = s.fatal
    /\ UNCHANGED <<port, secure, call>>

Did(op, raised, s, status, body) ==
    [op |-> op, pre |-> ready_state, raised |-> raised,
     em |-> s.em, wr |-> s.wr, opened |-> s.opened, od |-> s.od,
     done |-> s.done, c |-> s.c,
     status |-> status,
     body |-> IF 300 > status /\ status >= 200 THEN <<>> ELSE body]

Init ==
    /\ kind \in {"polling", "websocket"}
    /\ supports_binary \in BOOLEAN
    /\ engine_sets_sid \in BOOLEAN
    /\ ready_state = "none"
    /\ writable = FALSE
    /\ polling = FALSE
    /\ sid = "none"
    /\ once = [poll_complete |-> <<>>, drain |-> <<>>, open |-> 0]
    /\ ctx = [c \in Pausers |-> NoCtx]
    /\ opener = [o \in Openers |-> IdleOpener]
    /\ sender = 0
    /\ read_job = FALSE
    /\ fatal = FALSE
    /\ last = Did("init", "none", St, 0, <<>>)
    /\ port = NoPort
    /\ secure = FALSE
    /\ call = NoCall

\* Transport.open by task o.  Polling: do_open calls poll, which blocks in
\* its request.  Websocket: do_open connects (connect may raise), calls
\* on_open and spawns the read loop.
Open(o) ==
    /\ opener[o].pc = "idle"
    /\ \A p \in Openers : p < o => opener[p].pc # "idle"
    /\ \E connected \in BOOLEAN :
        IF open_guard
        THEN LET s0 == [St EXCEPT !.rs = "opening", !.opened = @ + 1]
             IN IF kind = "polling"
                THEN /\ connected
                     /\ Put([s0 EXCEPT !.polling = TRUE])
                     /\ opener' = [opener EXCEPT ![o].pc = "poll_req"]
                     /\ read_job' = read_job
                     /\ last' = Did("open", "none", s0, 0, <<>>)
                ELSE IF connected
                THEN /\ Put(on_open(s0))
                     /\ read_job' = TRUE
                     /\ opener' = opener
                     /\ last' = Did("open", "none", on_open(s0), 0, <<>>)
                ELSE /\ Put(s0)
                     /\ UNCHANGED <<read_job, opener>>
                     /\ last' = Did("open", "connect failed", s0, 0, <<>>)
        ELSE /\ connected
             /\ Put(St)
             /\ UNCHANGED <<read_job, opener>>
             /\ last' = Did("open", "none", St, 0, <<>>)
    /\ UNCHANGED <<kind, supports_binary, engine_sets_sid, sender>>

\* what a blocked on_data call keeps of its payload: the packets it has
\* taken from the decoder so far, the rest being pkts
Taken(od, pkts) ==
    [od EXCEPT !.payload = SubSeq(@, 1, Len(@) - Len(pkts))]

\* how the task of open() goes on after on_data or a write has ended
Resume(o, r, op, status, body) ==
    IF r.out = "blocked"
    THEN /\ Put(r.s)
         /\ opener' = [opener EXCEPT ![o] = [pc |-> "write_req",
                           resume |-> r.resume, n |-> r.n,
                           pkts |-> IF r.resume = "on_close" THEN <<>>
                                    ELSE r.pkts,
                           od |-> Taken(r.s.od, r.pkts)]]
         /\ last' = Did(op, "none", r.s, status, body)
    ELSE IF r.out = "raise"
    THEN /\ Put(r.s)
         /\ opener' = [opener EXCEPT ![o] = IdleOpener]
         /\ last' = Did(op, "sid is none", r.s, status, body)
    ELSE LET q == poll_loop(r.s)
         IN /\ Put(q.s)
            /\ opener' = [opener EXCEPT ![o] = [IdleOpener EXCEPT !.pc = q.pc]]
            /\ last' = Did(op, "none", q.s, status, body)

\* the response of a poll request arrives: do_poll, then poll and do_open
PollResponse(o) ==
    /\ opener[o].pc = "poll_req"
    /\ \E resp \in Responses :
        \E okdec \in (IF on_load_data(resp).ok /\ resp.status = 200
                      THEN OkDecodings ELSE {<<>>}) :
            Resume(o, do_poll_done(St, resp, okdec), "poll_response",
                   resp.status, resp.body)
    /\ UNCHANGED <<kind, supports_binary, engine_sets_sid, sender, read_job>>

\* the response of a write made by the task of open() arrives: do_write and
\* write end, then the listener or the on_data call it was made in goes on
OpenerWriteResponse(o) ==
    /\ opener[o].pc = "write_req"
    /\ \E status \in Statuses, body \in Bodies :
        LET s1 == write_end(do_write_done([St EXCEPT !.od = opener[o].od],
                                          status, body))
            r == IF opener[o].resume = "open_listener"
                 THEN open_listeners(s1, opener[o].n, opener[o].pkts)
                 ELSE Returned(s1, "False")
        IN Resume(o, r, "write_response", status, body)
    /\ UNCHANGED <<kind, supports_binary, engine_sets_sid, sender, read_job>>

\* Transport.send by a task that is not blocked in an earlier send
Send ==
    /\ sender < NumSenders
    /\ \E arg \in SendArgs, fails \in SUBSET (1..2) :
        IF send_guard
        THEN IF kind = "polling"
             THEN /\ fails = {}
                  /\ Put(write_begin(St, arg.items))
                  /\ sender' = sender + 1
                  /\ last' = Did("send", "none", write_begin(St, arg.items), 0, <<>>)
             ELSE /\ fails \subseteq 1..Len(arg.items)
                  /\ Put(ws_write(St, arg.items, fails))
                  /\ sender' = sender
                  /\ last' = Did("send", "none", ws_write(St, arg.items, fails), 0, <<>>)
        ELSE /\ fails = {}
             /\ Put(St)
             /\ sender' = sender
             /\ last' = Did("send", "Transport not open", St, 0, <<>>)
    /\ UNCHANGED <<kind, supports_binary, engine_sets_sid, opener, read_job>>

\* the response of a write made by send() arrives
SendResponse ==
    /\ sender > 0
    /\ \E status \in Statuses, body \in Bodies :
        LET s1 == write_end(do_write_done(St, status, body))
        IN /\ Put(s1)
           /\ last' = Did("write_response", "none", s1, status, body)
    /\ sender' = sender - 1
    /\ UNCHANGED <<kind, supports_binary, engine_sets_sid, opener, read_job>>

\* Transport.close: no transport kind overrides Transport.do_close, which
\* raises NotImplementedError, so on_close is never reached from here
Close ==
    /\ IF close_guard
       THEN last' = Did("close", "NotImplementedError", St, 0, <<>>)
       ELSE last' = Did("close", "none", St, 0, <<>>)
    /\ Put(St)
    /\ UNCHANGED <<kind, supports_binary, engine_sets_sid, opener, sender, read_job>>

\* pause() counting the 'drain' listener out
pause_register_mut(s, c) ==
    LET s1 == IF s.polling
              THEN [s EXCEPT !.ctx[c].total = @ + 1, !.ctx[c].reg_pc = TRUE,
                             !.once.poll_complete = Append(@, c)]
              ELSE s
    IN IF ~s1.writable
       THEN [s1 EXCEPT !.ctx[c].reg_drain = TRUE,
                       !.once.drain = Append(@, c)]
       ELSE s1

\* PollingTransport.pause, up to the wait
pause_register(s, c) ==
    LET s1 == IF s.polling
              THEN [s EXCEPT !.ctx[c].total = @ + 1, !.ctx[c].reg_pc = TRUE,
                             !.once.poll_complete = Append(@, c)]
              ELSE s
    IN IF ~s1.writable
       THEN [s1 EXCEPT !.ctx[c].total = @ + 1, !.ctx[c].reg_drain = TRUE,
                       !.once.drain = Append(@, c)]
       ELSE s1

\* whether pause() is called in 'opening' or 'open' while a poll request or
\* a write is in flight
CalledLive(s) ==
    /\ s.rs \in {"opening", "open"}
    /\ \/ sender > 0
       \/ \E o \in Openers : opener[o].pc \in {"poll_req", "write_req"}

\* pause without the branch that completes at once
pause_call_mut(s, c, nowait) ==
    pause_register([s EXCEPT !.rs = "pausing",
                             !.ctx[c] = [NoCtx EXCEPT !.nowait = nowait,
                                                      !.status = "running",
                                                      !.live = CalledLive(s)]], c)

pause_call(s, c, nowait) ==
    LET s0 == [s EXCEPT !.rs = "pausing",
                        !.ctx[c] = [NoCtx EXCEPT !.nowait = nowait,
                                                 !.status = "running",
                                                 !.live = CalledLive(s)]]
    IN IF s0.polling \/ ~s0.writable
       THEN pause_register(s0, c)
       ELSE pause_done(s0, c)

\* the caller returns at once (nowait, or the event is already set) or
\* blocks in Event.wait
pause_wait(s, c) ==
    LET s1 == [s EXCEPT !.ctx[c].status =
                  IF s.ctx[c].nowait \/ s.ctx[c].set THEN "returned"
                  ELSE "waiting"]
    IN release([s1 EXCEPT !.c = s1.ctx[c]], c)

Pause(c) ==
    /\ kind = "polling"
    /\ ctx[c].status = "unused"
    /\ \A d \in Pausers : d < c => ctx[d].status # "unused"
    /\ \E nowait \in BOOLEAN :
        LET s1 == pause_wait(pause_call(St, c, nowait), c)
        IN /\ Put(s1)
           /\ last' = Did("pause", "none", s1, 0, <<>>)
    /\ UNCHANGED <<kind, supports_binary, engine_sets_sid, opener, sender, read_job>>

\* Event.wait returns True: the event was set by a listener
PauseReturn(c) ==
    /\ ctx[c].status = "waiting"
    /\ ctx[c].set
    /\ LET s0 == [St EXCEPT !.ctx[c].status = "returned"]
           s1 == release([s0 EXCEPT !.c = s0.ctx[c]], c)
       IN /\ Put(s1)
          /\ last' = Did("pause_return", "none", s1, 0, <<>>)
    /\ UNCHANGED <<kind, supports_binary, engine_sets_sid, opener, sender, read_job>>

\* a timeout that rolls ready_state back
pause_timeout_mut(s, c) ==
    [s EXCEPT !.ctx[c].status = "timedout", !.rs = "open",
              !.c = [s.ctx[c] EXCEPT !.status = "timedout"]]

\* Event.wait returns False after the timeout: RuntimeWarning is raised
pause_timeout(s, c) ==
    [s EXCEPT !.ctx[c].status = "timedout",
              !.c = [s.ctx[c] EXCEPT !.status = "timedout"]]

PauseTimeout(c) ==
    /\ ctx[c].status = "waiting"
    /\ ~ctx[c].set
    /\ LET s1 == pause_timeout(St, c)
       IN /\ Put(s1)
          /\ last' = Did("pause_timeout", "The pause timeout", s1, 0, <<>>)
    /\ UNCHANGED <<kind, supports_binary, engine_sets_sid, opener, sender, read_job>>

\* WebsocketTransport._read: one frame is received and handed to
\* Transport.on_data
WsRead ==
    /\ kind = "websocket"
    /\ read_job
    /\ \E p \in Packets :
        LET s1 == on_packet(St, p)
        IN /\ Put(s1)
           /\ last' = Did("read", "none", s1, 0, <<>>)
    /\ UNCHANGED <<kind, supports_binary, engine_sets_sid, opener, sender, read_job>>

\* WebsocketTransport._read: receive returns None and the loop ends
WsReadEnd ==
    /\ kind = "websocket"
    /\ read_job
    /\ read_job' = FALSE
    /\ Put(St)
    /\ last' = Did("read_end", "none", St, 0, <<>>)
    /\ UNCHANGED <<kind, supports_binary, engine_sets_sid, opener, sender>>

Next ==
    \/ \E o \in Openers : Open(o)
    \/ \E o \in Openers : PollResponse(o)
    \/ \E o \in Openers : OpenerWriteResponse(o)
    \/ Send
    \/ SendResponse
    \/ Close
    \/ \E c \in Pausers : Pause(c)
    \/ \E c \in Pausers : PauseReturn(c)
    \/ \E c \in Pausers : PauseTimeout(c)
    \/ WsRead
    \/ WsReadEnd

Spec == Init /\ [][Next]_vars

\* ------------------------------------------------------- the binary codec
\* A value of a data tree is a record: t is its type, v the value of a leaf
\* (text, number, boolean and blob values are numbered), keys the keys of a
\* map in iteration order and kids the elements of an array or the values
\* of a map.
Leaf(t, v) == [t |-> t, v |-> v, keys |-> <<>>, kids |-> <<>>]
Arr(kids) == [t |-> "array", v |-> 0, keys |-> <<>>, kids |-> kids]
Map(keys, kids) == [t |-> "map", v |-> 0, keys |-> keys, kids |-> kids]

Leaves ==
    {Leaf("text", 0), Leaf("number", 0), Leaf("boolean", 1),
     Leaf("blob", 1), Leaf("blob", 2)}
KeySeqs ==
    {ks \in {<<>>, <<"hello">>, <<"hello", "world">>,
             <<"_placeholder", "num">>} : Len(ks) <= MaxWidth}

RECURSIVE Trees(_)
Trees(d) ==
    IF d = 0 THEN Leaves
    ELSE Leaves
         \cup {Arr(k) : k \in UNION {[1..n -> Trees(d - 1)] : n \in 0..MaxWidth}}
         \cup UNION {{Map(ks, k) : k \in [1..Len(ks) -> Trees(d - 1)]} :
                        ks \in KeySeqs}

\* the placeholder object {_placeholder: true, num: i}
Placeholder(i) ==
    Map(<<"_placeholder", "num">>, <<Leaf("boolean", 1), Leaf("number", i)>>)

KeyIndex(d, key) == {i \in 1..Len(d.keys) : d.keys[i] = key}
HasKey(d, key) == KeyIndex(d, key) # {}
ValueOf(d, key) == d.kids[CHOOSE i \in KeyIndex(d, key) : TRUE]

\* the field check that takes a value of the skeleton for a placeholder
IsPlaceholder(d) ==
    /\ d.t = "map"
    /\ HasKey(d, "_placeholder")
    /\ ValueOf(d, "_placeholder") = Leaf("boolean", 1)

\* deconstruction of one value, given the buffers collected so far: the
\* skeleton of the value and the buffers after it
RECURSIVE deconstruct(_, _)
RECURSIVE deconstruct_kids(_, _, _)
deconstruct_kids(kids, done, buffers) ==
    IF kids = <<>> THEN [kids |-> done, buffers |-> buffers]
    ELSE LET r == deconstruct(Head(kids), buffers)
         IN deconstruct_kids(Tail(kids), Append(done, r.data), r.buffers)

deconstruct(d, buffers) ==
    IF d.t = "blob"
    THEN [data |-> Placeholder(Len(buffers)), buffers |-> Append(buffers, d)]
    ELSE IF d.t \in {"array", "map"}
    THEN LET r == deconstruct_kids(d.kids, <<>>, buffers)
         IN [data |-> [d EXCEPT !.kids = r.kids], buffers |-> r.buffers]
    ELSE [data |-> d, buffers |-> buffers]

deconstruct_packet(packet) ==
    LET r == deconstruct(packet.data, <<>>)
        skeleton == [type |-> packet.type, data |-> r.data]
    IN [packet |-> skeleton, buffers |-> r.buffers,
        attachments |-> Len(r.buffers)]

\* a lookup that fails (no 'num', or no buffer of that index)
Failed == Leaf("raise", 0)

\* reconstruction of one value: a placeholder gives way to its buffer
RECURSIVE reconstruct(_, _)
reconstruct(d, buffers) ==
    IF IsPlaceholder(d)
    THEN IF /\ HasKey(d, "num")
            /\ ValueOf(d, "num").t = "number"
            /\ ValueOf(d, "num").v < Len(buffers)
         THEN buffers[ValueOf(d, "num").v + 1]
         ELSE Failed
    ELSE IF d.t \in {"array", "map"}
    THEN [d EXCEPT !.kids = [i \in 1..Len(d.kids) |->
                                reconstruct(d.kids[i], buffers)]]
    ELSE d

reconstruct_packet(packet, buffers) ==
    [type |-> packet.type, data |-> reconstruct(packet.data, buffers)]

\* an event packet with any data tree is deconstructed, then the skeleton
\* and the buffers are reconstructed
BinaryInit ==
    /\ kind = "polling"
    /\ supports_binary = TRUE
    /\ engine_sets_sid = TRUE
    /\ ready_state = "none"
    /\ writable = FALSE
    /\ polling = FALSE
    /\ sid = "none"
    /\ once = [poll_complete |-> <<>>, drain |-> <<>>, open |-> 0]
    /\ ctx = [c \in Pausers |-> NoCtx]
    /\ opener = [o \in Openers |-> IdleOpener]
    /\ sender = 0
    /\ read_job = FALSE
    /\ fatal = FALSE
    /\ last = Did("init", "none", St, 0, <<>>)
    /\ port = NoPort
    /\ secure = FALSE
    /\ call \in {[fn |-> "none", arg |-> [type |-> "event", data |-> d]] :
                    d \in Trees(MaxDepth)}

NotTransport ==
    UNCHANGED <<kind, supports_binary, engine_sets_sid, ready_state,
                writable, polling, sid, once, ctx, opener, sender,
                read_job, fatal, last, port, secure>>

Deconstruct ==
    /\ call.fn = "none"
    /\ call' = [fn |-> "deconstruct_packet", arg |-> call.arg,
                res |-> deconstruct_packet(call.arg)]
    /\ NotTransport

Reconstruct ==
    /\ call.fn = "deconstruct_packet"
    /\ call' = [fn |-> "reconstruct_packet", arg |-> call.arg,
                res |-> reconstruct_packet(call.res.packet, call.res.buffers)]
    /\ NotTransport

BinaryNext == Deconstruct \/ Reconstruct

BinarySpec == BinaryInit /\ [][BinaryNext]_vars

\* ---------------------------------------------- uri() on every configuration
\* A transport is constructed with any port, secure flag and binary flag;
\* its sid is unset or has been stored; then uri() is called.
UriInit ==
    /\ kind \in {"polling", "websocket"}
    /\ supports_binary \in BOOLEAN
    /\ engine_sets_sid = TRUE
    /\ ready_state = "none"
    /\ writable = FALSE
    /\ polling = FALSE
    /\ sid \in {"none", "sid1"}
    /\ once = [poll_complete |-> <<>>, drain |-> <<>>, open |-> 0]
    /\ ctx = [c \in Pausers |-> NoCtx]
    /\ opener = [o \in Openers |-> IdleOpener]
    /\ sender = 0
    /\ read_job = FALSE
    /\ fatal = FALSE
    /\ last = Did("init", "none", St, 0, <<>>)
    /\ port \in Ports
    /\ secure \in BOOLEAN
    /\ call = NoCall

Uri ==
    /\ call.fn = "none"
    /\ call' = [fn |-> "uri", res |-> uri]
    /\ UNCHANGED <<kind, supports_binary, engine_sets_sid, ready_state,
                   writable, polling, sid, once, ctx, opener, sender,
                   read_job, fatal, last, port, secure>>

UriNext == Uri

UriSpec == UriInit /\ [][UriNext]_vars

\* ------------------------------------------------------------ properties
EventsOf(em, e) == SelectSeq(em, LAMBDA x : x.ev = e)
HasClose(p) == \E k \in 1..Len(p) : PacketType(p[k]) = "close"
FirstClose(p) ==
    CHOOSE k \in 1..Len(p) :
        /\ PacketType(p[k]) = "close"
        /\ \A j \in 1..(k - 1) : PacketType(p[j]) # "close"
PollsInFlight == {o \in Openers : opener[o].pc = "poll_req"}
XhrError(body) == [ev |-> "error", msg |-> "xhr request failed", body |-> body]
BothFired(x) == x.fired_pc /\ x.fired_drain
WaitsForBoth(x) == x.reg_pc /\ x.reg_drain /\ ~x.nowait
InSeq(q) == {q[i] : i \in 1..Len(q)}

\* C1: close() called while ready_state is 'opening' or 'open' completes:
\* it does not raise, leaves ready_state 'closed' and emits 'close' exactly
\* once.
C1_CloseCompletes ==
    (last.op = "close" /\ last.pre \in {"opening", "open"}) =>
        /\ last.raised = "none"
        /\ ready_state = "closed"
        /\ Len(EventsOf(last.em, "close")) = 1

\* C2: a pause(nowait=False) entered with polling true and writable false
\* does not complete, set its event or return before both its
\* 'poll_complete' and its 'drain' listener have fired; the step in which
\* the second of them fires completes the call, leaves ready_state 'paused'
\* and sets the event, and a caller still waiting then returns without the
\* timeout error.
C2_PauseWaitsForBoth ==
    /\ [](/\ \A c \in Pausers : WaitsForBoth(ctx[c]) =>
                (ctx[c].set <=> BothFired(ctx[c]))
          /\ \A x \in InSeq(last.done) : WaitsForBoth(x) => BothFired(x)
          /\ (last.op \in {"pause", "pause_return"} /\ WaitsForBoth(last.c)
                /\ last.c.status = "returned") =>
                (BothFired(last.c) /\ last.c.set /\ last.raised = "none"))
    /\ [][\A c \in Pausers : WaitsForBoth(ctx[c]) =>
            /\ (ctx[c].total = 1 /\ last'.op \in {"poll_response", "write_response"}
                    /\ (\/ ctx[c].fired_pc /\ Len(EventsOf(last'.em, "drain")) > 0
                        \/ ctx[c].fired_drain
                             /\ Len(EventsOf(last'.em, "poll_complete")) > 0)) =>
                   /\ ready_state' = "paused"
                   /\ \E x \in InSeq(last'.done) : WaitsForBoth(x) /\ BothFired(x)
                   /\ ctx[c].status = "waiting" => ctx'[c].set
            /\ (BothFired(ctx[c]) /\ ctx[c].status = "waiting") =>
                   \/ ctx'[c] = ctx[c]
                   \/ last'.op = "pause_return" /\ last'.raised = "none"]_vars

C2_Witness ==
    /\ last.op = "pause_return"
    /\ WaitsForBoth(last.c) /\ BothFired(last.c)
    /\ last.c.status = "returned"
    /\ last.raised = "none"

\* C3: an on_data call whose payload holds a close packet dispatches exactly
\* the packets before the first close packet, in payload order, each as one
\* 'packet' event, never a later one, and returns False.
ClosePacketHalts(od) ==
    (od.ret # "none" /\ HasClose(od.payload)) =>
        /\ od.ret \in {"running", "False"}
        /\ od.dispatched = SubSeq(od.payload, 1, FirstClose(od.payload) - 1)

PacketsEmitted(em) ==
    [i \in 1..Len(EventsOf(em, "packet")) |-> EventsOf(em, "packet")[i].msg]

C3_ClosePacketHalts ==
    /\ [](/\ ClosePacketHalts(last.od)
          /\ \A o \in Openers :
                opener[o].pc = "write_req" => ClosePacketHalts(opener[o].od)
          /\ last.od.ret = "running" =>
                \E o \in Openers :
                    /\ opener[o].pc = "write_req"
                    /\ opener[o].od.dispatched = last.od.dispatched
          /\ last.op = "poll_response" =>
                PacketsEmitted(last.em) = last.od.dispatched)
    /\ [][\A o \in Openers :
            (opener[o].pc = "write_req" /\ opener[o].resume = "on_close"
                /\ opener'[o] # opener[o]) =>
                /\ last'.od.ret = "False"
                /\ last'.od.dispatched = opener[o].od.dispatched
                /\ PacketsEmitted(last'.em) = <<>>]_vars

C3_Witness ==
    /\ last.op = "poll_response"
    /\ last.od.ret = "False"
    /\ last.od.payload = <<"a", "close", "a">>
    /\ last.od.dispatched = <<"a">>

\* C4: after an open polling transport has handled a payload with a close
\* packet, ready_state is 'closed', 'close' has been emitted and no poll is
\* in flight.
C4_ClosePacketTearsDown ==
    (last.od.ret = "False" /\ last.od.pre = "open") =>
        /\ ready_state = "closed"
        /\ Len(EventsOf(last.em, "close")) = 1
        /\ PollsInFlight = {}

\* C5: close() called on a polling transport while 'opening' writes nothing
\* at once and leaves one deferred close write registered for 'open'.
C5_CloseWhileOpeningDeferred ==
    (kind = "polling" /\ last.op = "close" /\ last.pre = "opening") =>
        /\ last.raised = "none"
        /\ last.wr = <<>>
        /\ once.open = 1

\* C6: open() in 'opening', 'open', 'pausing' or 'paused' changes nothing
\* and does not enter do_open; open() in 'closed' or unset enters do_open
\* exactly once, from 'opening'.
C6_OpenGuard ==
    [][last'.op = "open" =>
        IF ready_state \in {"opening", "open", "pausing", "paused"}
        THEN /\ last'.opened = 0
             /\ last'.em = <<>>
             /\ UNCHANGED <<ready_state, writable, polling, sid, once, ctx,
                            opener, sender, read_job>>
        ELSE /\ last'.opened = 1
             /\ IF kind = "polling"
                THEN ready_state' = "opening" /\ Cardinality(PollsInFlight') = 1
                ELSE IF last'.raised = "none"
                THEN ready_state' = "open" /\ read_job'
                ELSE ready_state' = "opening"]_vars

C6_Witness ==
    /\ last.op = "open"
    /\ last.pre = "paused"
    /\ ready_state = "paused"
    /\ last.opened = 0

\* C7: send() in any ready_state other than 'open' raises 'Transport not
\* open', hands nothing to the write, leaves writable alone and emits
\* nothing.
C7_SendNotOpen ==
    [][(last'.op = "send" /\ ready_state # "open") =>
        /\ last'.raised = "Transport not open"
        /\ last'.wr = <<>>
        /\ last'.em = <<>>
        /\ UNCHANGED <<ready_state, writable, polling, once, ctx, sender>>]_vars

C7_Witness ==
    /\ last.op = "send"
    /\ last.pre = "pausing"
    /\ last.raised = "Transport not open"
    /\ last.wr = <<>>

\* C8 as stated: once a pause(nowait=False) has timed out and ready_state is
\* 'pausing', only a caller's own call (pause, open, close, send) moves it.
TimedOut == \E c \in Pausers : ctx[c].status = "timedout"
CallerOps == {"pause", "open", "close", "send"}

C8_TimedOutStaysPausing ==
    [][(TimedOut /\ ready_state = "pausing" /\ last'.op \notin CallerOps) =>
        ready_state' = "pausing"]_vars

\* C8 as amended: when pause(nowait=False) raises the timeout, ready_state
\* is 'pausing' and the timeout does not touch it or the listeners of the
\* call; from then on ready_state leaves 'pausing' only for 'paused', through
\* a later pause() call or through a late 'poll_complete' or 'drain' that
\* brings a pending counter to zero, which a timed-out call's own listeners
\* still do.
C8_TimeoutKeepsListeners ==
    /\ [](last.op = "pause_timeout" =>
            /\ ready_state = "pausing"
            /\ last.raised = "The pause timeout")
    /\ [][last'.op = "pause_timeout" =>
            UNCHANGED <<ready_state, once, writable, polling>>]_vars
    /\ [][(TimedOut /\ ready_state = "pausing" /\ ready_state' # "pausing") =>
            /\ ready_state' = "paused"
            /\ \/ last'.op = "pause"
               \/ /\ last'.op \in {"poll_response", "write_response"}
                  /\ last'.done # <<>>
                  /\ \/ EventsOf(last'.em, "poll_complete") # <<>>
                     \/ EventsOf(last'.em, "drain") # <<>>]_vars

C8_Witness ==
    /\ \E x \in InSeq(last.done) : x.status = "timedout" /\ x.total = 0
    /\ last.pre = "pausing"
    /\ ready_state = "paused"
    /\ last.op \in {"poll_response", "write_response"}

\* C9: on_data lets the poll loop go on (returns True) only with the sid
\* set; when it finds the transport 'open' with the sid unset it raises
\* before 'poll_complete' is emitted, and after that no task is left in the
\* poll loop: no poll and no write of it is in flight, ever.
C9_SidFatal ==
    /\ last.od.ret = "True" => sid # "none"
    /\ last.raised = "sid is none" =>
        /\ last.od.ret = "raise"
        /\ ready_state = "open" /\ sid = "none"
        /\ EventsOf(last.em, "poll_complete") = <<>>
        /\ EventsOf(last.em, "poll") = <<>>
    /\ last.od.ret = "raise" => last.raised = "sid is none"
    /\ fatal => \A o \in Openers : opener[o].pc = "idle"

C9_Witness ==
    /\ last.raised = "sid is none"
    /\ last.od.payload = <<"a">>
    /\ fatal

\* C10: do_poll on a response with status >= 400 and do_write on a response
\* with a status outside 2xx emit one 'error' event carrying 'xhr request
\* failed' and the response body and leave ready_state alone; on_data is not
\* run for the failed poll.
C10_XhrFailure ==
    /\ \A o \in Openers : opener[o].pc = "poll_req" =>
        \A resp \in Responses : resp.status >= 400 =>
            LET r == do_poll_done(St, resp, <<>>)
            IN /\ r.s.em = <<XhrError(resp.body)>>
               /\ r.s.rs = ready_state
               /\ r.s.od = NoOnData
               /\ r.out = "error"
    /\ (\E o \in Openers : opener[o].pc = "write_req")
         \/ sender > 0 =>
        \A status \in Statuses, body \in Bodies :
            ~(status >= 200 /\ status <= 299) =>
                LET s1 == do_write_done(St, status, body)
                IN s1.em = <<XhrError(body)>> /\ s1.rs = ready_state
    /\ (last.op = "poll_response" /\ last.status >= 400) =>
        /\ EventsOf(last.em, "error") = <<XhrError(last.body)>>
        /\ ready_state = last.pre
        /\ last.od = NoOnData
    /\ (last.op = "write_response" /\ ~(last.status >= 200 /\ last.status <= 299)) =>
        EventsOf(last.em, "error") = <<XhrError(last.body)>>

C10_Witness ==
    /\ last.op = "poll_response"
    /\ last.status = 404
    /\ last.body = <<"a">>
    /\ EventsOf(last.em, "error") = <<XhrError(<<"a">>)>>
    /\ ready_state = "open"

\* C13: the URI has no port segment exactly when the port is unset or is
\* the default of the scheme (80 for http and ws, 443 for https and wss),
\* and carries ':<port>' for every other port, for both transport kinds.
DefaultPort(schema) == IF schema \in {"https", "wss"} THEN 443 ELSE 80

C13_PortSegment ==
    call.fn = "uri" =>
        IF ~port.set \/ port.n = DefaultPort(call.res.schema)
        THEN call.res.port = NoPortSegment
        ELSE call.res.port = PortSegment(port)

\* C11: WebsocketTransport.write sets writable false, hands every packet of
\* the batch to the socket as its own frame, in batch order, emits one
\* 'error' for each send that fails and goes on with the next packet, and
\* after the last attempt sets writable true and emits 'drain' once, as the
\* last event of the call.
WsError ==
    [ev |-> "error", msg |-> "The websocket clsoed without a close packet (%s)",
     body |-> <<>>]

Frames(packets) ==
    [i \in 1..Len(packets) |-> encode_payload(<<packets[i]>>, supports_binary)]

C12_PauseAtOnce ==
    [][(last'.op = "pause" /\ ~polling /\ writable) =>
        /\ ready_state' = "paused"
        /\ last'.raised = "none"
        /\ last'.c.status = "returned"
        /\ ~last'.c.reg_pc /\ ~last'.c.reg_drain /\ last'.c.total = 0
        /\ last'.c.nowait \/ last'.c.set
        /\ once'.poll_complete = <<>> /\ once'.drain = <<>>]_vars

\* a pause(nowait=False) that found nothing pending and has returned
C12_Witness ==
    /\ last.op = "pause"
    /\ ~polling /\ writable
    /\ ~last.c.nowait /\ last.c.set
    /\ ~last.c.reg_pc /\ ~last.c.reg_drain
    /\ last.c.status = "returned"
    /\ ready_state = "paused"

\* C14: for every data tree D of arrays, maps, text, numbers, booleans and
\* blobs, reconstruct_packet applied to the skeleton and the buffers of
\* deconstruct_packet({type: 'event', data: D}) yields a packet whose data
\* is D.
C14_RoundTrip ==
    call.fn = "reconstruct_packet" => call.res.data = call.arg.data

\* the writes in flight: do_write is blocked in its request
OpenerWrites == {o \in Openers : opener[o].pc = "write_req"}
WritesInFlight == sender + Cardinality(OpenerWrites)

\* C15: in the step that completes a pause (ready_state becomes 'paused')
\* no poll request is in flight and polling is false, and no write is in
\* flight and writable is true.
C15_PausedMeansQuiet ==
    last.done # <<>> =>
        /\ ready_state = "paused"
        /\ PollsInFlight = {} /\ ~polling
        /\ WritesInFlight = 0 /\ writable

\* C19: on a polling transport at most one write is in flight at any time,
\* and writable is false as long as one is.
C19_WriteBracket ==
    kind = "polling" =>
        /\ WritesInFlight <= 1
        /\ WritesInFlight > 0 => ~writable

\* no poll request and no write is in flight and no task is in the poll
\* loop
Quiet ==
    /\ PollsInFlight = {}
    /\ WritesInFlight = 0
    /\ \A o \in Openers : opener[o].pc = "idle"

\* C16: once a pause(nowait=True) has been called in 'opening' or 'open'
\* with a poll or a write in flight, and the poll request has returned and
\* the write has finished, ready_state is 'paused', whatever the poll
\* response was.
C16_NowaitPauseCompletes ==
    \A c \in Pausers :
        (ctx[c].status = "returned" /\ ctx[c].nowait /\ ctx[c].live /\ Quiet) =>
            ready_state = "paused"

\* C17: polling is true while a poll request is in flight, and false
\* whenever poll() has returned and the task has left the poll loop.
C17_PollingFlag ==
    kind = "polling" =>
        /\ PollsInFlight # {} => polling
        /\ (~fatal /\ \A o \in Openers : opener[o].pc = "idle") => ~polling

\* C18: at most one poll request is in flight, and no poll is in flight
\* while the response of another is still being handled: at most one task
\* is in the poll loop, whatever open(), pause(), close() and the payloads
\* do.
InPollLoop == {o \in Openers : opener[o].pc # "idle"}

C18_OnePoll ==
    /\ Cardinality(PollsInFlight) <= 1
    /\ Cardinality(InPollLoop) <= 1

\* open() called by a second task while the poll of the first is in flight
C18_Witness ==
    /\ last.op = "open"
    /\ last.opened = 0
    /\ last.pre = "open"
    /\ Cardinality(PollsInFlight) = 1
    /\ opener[1].pc = "poll_req"

\* C20: the counter of a pause() call is the number of its registered
\* listeners that have not fired and is never negative, and the closure
\* pause() runs at most once for the call.
Pending(x) ==
    (IF x.reg_pc /\ ~x.fired_pc THEN 1 ELSE 0)
    + (IF x.reg_drain /\ ~x.fired_drain THEN 1 ELSE 0)

CounterOk(x) ==
    /\ x.total = Pending(x)
    /\ x.total >= 0
    /\ x.n_done <= 1
    /\ x.n_done = 1 => x.total = 0

C20_PauseCounter ==
    /\ \A c \in Pausers : CounterOk(ctx[c])
    /\ \A x \in InSeq(last.done) : CounterOk(x) /\ x.n_done = 1
    /\ CounterOk(last.c)

\* a call whose two listeners have both fired and which completed once
C20_Witness ==
    \E x \in InSeq(last.done) :
        /\ x.reg_pc /\ x.reg_drain /\ x.fired_pc /\ x.fired_drain
        /\ x.total = 0 /\ x.n_done = 1

====
